---- MODULE Spec2Model ----
(***************************************************************************)
(* Credential lifecycle of the blogverse API (src/src/auth): sign-up,      *)
(* e-mail verification, resend-verification, sign-in, forgot-password and  *)
(* reset-password, run by concurrent request handlers against one          *)
(* PostgreSQL database.  Every await point of a handler is one step, so    *)
(* two requests interleave between any two SQL statements.  The clap        *)
(* handlers of stories and comments (src/src/stories, src/src/comments)    *)
(* are modelled beside them, over tables of their own.                     *)
(***************************************************************************)
EXTENDS Integers, Sequences, FiniteSets, TLC

\* ------------------------------------------------------------------ bounds
\* requests admitted past their first statement, and clock steps
MaxRequests == 3
MaxTicks == 1

\* ------------------------------------------------------- program constants
\* Lifetimes in seconds: Duration::hours(24) and Duration::hours(1).
VerificationTtl == 86400
ResetTtl == 3600
SessionTtl == 3600
\* Validation::default(): seconds of clock skew allowed on exp
Leeway == 60

\* two request handlers run concurrently
Procs == {1, 2}
Emails == {"a@x.com", "b@x.com"}
MalformedEmail == "not-an-email"
Passwords == {"password123", "newpass1234"}
ShortPassword == "short"
Salts == {"salt1"}
\* sign-up payloads: the third collides with the first on the username and
\* with the second on the e-mail address
RegisterUsers ==
    {[username |-> "alice", email |-> "a@x.com", password |-> "password123"],
     [username |-> "bob", email |-> "b@x.com", password |-> "password123"],
     [username |-> "alice", email |-> "b@x.com", password |-> "password123"],
     [username |-> "carol", email |-> MalformedEmail, password |-> "password123"],
     [username |-> "carol", email |-> "a@x.com", password |-> ShortPassword]}
NewPasswords == {"newpass1234", ShortPassword}
TickSteps == {ResetTtl, VerificationTtl}
UserIds == {1, 2}
\* what an Authorization header can carry: nothing, garbage, a token signed
\* with another key, or a token signed with the server's secret
BearerKinds == {"missing", "malformed", "forged", "signed"}
\* how long ago a presented bearer token was issued: just now, a session
\* lifetime ago, and a little more than that, within and beyond the leeway
BearerAges == {0, SessionTtl, SessionTtl + 30, SessionTtl + Leeway + 1}

NULL == -1

\* if current_count >= 50 { return Err(.. "Max 50 claps allowed") }
ClapCap == 50
\* one user claps, on the published story or a story that is not there, and
\* on the stored comment or a comment that is not there
ClapUsers == {1}
StoryIds == {1, 2}
PublishedStories == {1}
CommentIds == {1, 2}
StoredComments == {1}

VARIABLES
    users,        \* table users: row i has id i
    auth_tokens,  \* table auth_tokens: row i has id i
    now,          \* the clock read by NOW() and Utc::now()
    proc,         \* per handler: position and locals of the request in flight
    response,     \* the response being written to a client, if any
    mail,         \* the message being handed to the SMTP relay, if any
    raced,        \* (user, type) pairs on which two issuing requests overlapped
    admitted,     \* how many requests got past their first statement
    story_claps,  \* table story_claps: claps_count per (story, user), 0 for no row
    comment_claps,\* table comment_claps: claps_count per (comment, user), 0 for no row
    stories,      \* table stories: clap_count of each published story
    comments,     \* table comments: clap_count of each comment
    clap_proc     \* per clap handler: position and locals of the request in flight

auth_vars == <<users, auth_tokens, now, proc, mail, raced, admitted>>
clap_vars == <<story_claps, comment_claps, stories, comments, clap_proc>>
vars == <<users, auth_tokens, now, proc, response, mail, raced, admitted,
          story_claps, comment_claps, stories, comments, clap_proc>>

\* --------------------------------------------------------------- responses
NoData == [kind |-> "null"]
\* what an Authorization header can carry
NoBearer == [kind |-> "missing", sub |-> 0, exp |-> 0, iat |-> 0]
NoRequest ==
    [username |-> "", email |-> "", token |-> 0, password |-> "", bearer |-> NoBearer, id |-> 0]
NoResponse == [op |-> "none", request |-> NoRequest,
               status |-> 0, success |-> FALSE, message |-> "", data |-> NoData]
NoMail == [kind |-> "none", to |-> "", token |-> 0, delivered |-> FALSE]

\* AppError values
InternalServerError == [kind |-> "InternalServerError", msg |-> ""]
BadRequest(msg) == [kind |-> "BadRequest", msg |-> msg]
Unauthorized == [kind |-> "Unauthorized", msg |-> ""]
NotFound(msg) == [kind |-> "NotFound", msg |-> msg]
Conflict(msg) == [kind |-> "Conflict", msg |-> msg]
UnprocessableEntity(msg) == [kind |-> "UnprocessableEntity", msg |-> msg]

\* impl IntoResponse for AppError
into_response(err) ==
    LET pair == CASE err.kind = "InternalServerError" -> <<500, "Internal Server Error">>
                  [] err.kind = "BadRequest" -> <<400, err.msg>>
                  [] err.kind = "Unauthorized" -> <<401, "Unauthorized">>
                  [] err.kind = "NotFound" -> <<404, err.msg>>
                  [] err.kind = "Conflict" -> <<409, err.msg>>
                  [] err.kind = "UnprocessableEntity" -> <<422, err.msg>>
    IN [status |-> pair[1], success |-> FALSE, message |-> pair[2], data |-> NoData]

\* ApiResponse::ok, ::success, ::success_with_message(..).created()
ApiOk(msg) == [status |-> 200, success |-> TRUE, message |-> msg, data |-> NoData]
ApiSuccess(data) == [status |-> 200, success |-> TRUE, message |-> "", data |-> data]
ApiCreated(msg, data) == [status |-> 201, success |-> TRUE, message |-> msg, data |-> data]

\* a projection that hands the whole row out
UserResponse_whole_row(user) == [kind |-> "user"] @@ user

\* impl From<User> for UserResponse: the row without password_hash
UserResponse(user) ==
    [kind |-> "user", id |-> user.id, username |-> user.username,
     email |-> user.email, email_verified |-> user.email_verified]

\* ---------------------------------------------------------------- helpers
\* utils::hash_password: a PHC string of algorithm, salt and digest
Digest(password, salt) == <<"argon2id", password, salt>>
hash_password(password, salt) == [alg |-> "argon2id", salt |-> salt, hash |-> Digest(password, salt)]

\* a comparison that lets every password through
verify_password_any(hash, password) == TRUE

\* utils::verify_password: re-derive with the embedded salt and compare
verify_password(hash, password) == hash.hash = Digest(password, hash.salt)

\* jwt::create_token with the subject left at Uuid::nil()
create_token_nil_subject(user_id, t) ==
    [kind |-> "signed", sub |-> 0, exp |-> t + SessionTtl, iat |-> t]

\* jwt::create_token: the claims, signed with the server's secret
create_token(user_id, t) ==
    [kind |-> "signed", sub |-> user_id, exp |-> t + SessionTtl, iat |-> t]

\* impl FromRequestParts for Claims: the header must be there, decode() must
\* parse the token and find the server's signature on it, and
\* Validation::default() rejects an exp earlier than now - leeway
from_request_parts(bearer, t) ==
    IF bearer.kind = "missing" THEN [ok |-> FALSE, claims |-> NoBearer]
    ELSE IF bearer.kind # "signed" THEN [ok |-> FALSE, claims |-> NoBearer]
    ELSE IF bearer.exp < t - Leeway THEN [ok |-> FALSE, claims |-> NoBearer]
    ELSE [ok |-> TRUE, claims |-> bearer]

\* the rejection of the extractor: a bare 401 without a body
bearer_rejected == [status |-> 401, success |-> FALSE, message |-> "", data |-> NoData]

\* validator derive on the request structs
validate_email(email) == email \in Emails
validate_password(password) == password \in Passwords

Rows(table) == {table[i] : i \in DOMAIN table}

\* SELECT * FROM users WHERE email = $1
UsersByEmail(email) == {u \in Rows(users) : u.email = email}

\* the unique indexes on users.username and users.email
DuplicateKey(username, email) ==
    \E u \in Rows(users) : u.username = username \/ u.email = email

NoHash == hash_password("", "")
NoUser == [id |-> 0, username |-> "", email |-> "", password_hash |-> NoHash,
           email_verified |-> FALSE]
NoToken == [id |-> 0, user_id |-> 0, token |-> 0, token_type |-> "", expires_at |-> 0,
            used_at |-> NULL]

Idle == [pc |-> "idle", user |-> NoUser, auth_token |-> NoToken, password |-> "",
         password_hash |-> NoHash, tx_start |-> NULL]

\* the number of clock steps that lead to instant t
ClockSteps(t) == (t \div VerificationTtl) + ((t % VerificationTtl) \div ResetTtl)

ClapIdle == [pc |-> "idle", user_id |-> 0, id |-> 0]

\* no clap has been given and no clap request is in flight
NoClaps ==
    /\ story_claps = [k \in PublishedStories \X ClapUsers |-> 0]
    /\ comment_claps = [k \in StoredComments \X ClapUsers |-> 0]
    /\ stories = [id \in PublishedStories |-> 0]
    /\ comments = [id \in StoredComments |-> 0]
    /\ clap_proc = [p \in Procs |-> ClapIdle]

Init ==
    /\ users = <<>>
    /\ auth_tokens = <<>>
    /\ now = 0
    /\ proc = [p \in Procs |-> Idle]
    /\ response = NoResponse
    /\ mail = NoMail
    /\ raced = {}
    /\ admitted = 0
    /\ NoClaps

\* ------------------------------------------------------- storage statements
\* the lookup without "AND used_at IS NULL"
find_live_ignoring_used(token, ty) ==
    {r \in Rows(auth_tokens) :
        r.token = token /\ r.token_type = ty /\ r.expires_at > now}

\* the lookup with "expires_at >= NOW()"
find_live_inclusive_expiry(token, ty) ==
    {r \in Rows(auth_tokens) :
        r.token = token /\ r.token_type = ty /\ r.expires_at >= now /\ r.used_at = NULL}

\* the lookup without "AND token_type = <ty>"
find_live_any_type(token, ty) ==
    {r \in Rows(auth_tokens) :
        r.token = token /\ r.expires_at > now /\ r.used_at = NULL}

\* SELECT * FROM auth_tokens WHERE token = $1 AND token_type = <ty>
\*   AND expires_at > NOW() AND used_at IS NULL
find_live(token, ty) ==
    {r \in Rows(auth_tokens) :
        /\ r.token = token
        /\ r.token_type = ty
        /\ r.expires_at > now
        /\ r.used_at = NULL}

\* UPDATE auth_tokens SET used_at = NOW() WHERE id = $1
consume(tokens, id, t) == [tokens EXCEPT ![id].used_at = t]

\* issuing without the invalidating UPDATE
invalidate_nothing(tokens, user_id, ty, t) == tokens

\* UPDATE auth_tokens SET used_at = NOW()
\*   WHERE user_id = $1 AND token_type = <ty> AND used_at IS NULL
invalidate(tokens, user_id, ty, t) ==
    [i \in DOMAIN tokens |->
        IF tokens[i].user_id = user_id /\ tokens[i].token_type = ty /\ tokens[i].used_at = NULL
        THEN [tokens[i] EXCEPT !.used_at = t]
        ELSE tokens[i]]

\* utils::generate_secure_token: 48 random characters, never seen before
generate_secure_token == Len(auth_tokens) + 1

\* INSERT INTO auth_tokens (user_id, token, token_type, expires_at) VALUES (..)
new_auth_token(user_id, ty, expires_at) ==
    [id |-> Len(auth_tokens) + 1, user_id |-> user_id, token |-> generate_secure_token,
     token_type |-> ty, expires_at |-> expires_at, used_at |-> NULL]

\* the INSERT with email_verified = true
new_user_verified(username, email, password_hash) ==
    [id |-> Len(users) + 1, username |-> username, email |-> email,
     password_hash |-> password_hash, email_verified |-> TRUE]

\* INSERT INTO users (id, username, email, password_hash, email_verified)
\*   VALUES ($1, $2, $3, $4, false) RETURNING *
new_user(username, email, password_hash) ==
    [id |-> Len(users) + 1, username |-> username, email |-> email,
     password_hash |-> password_hash, email_verified |-> FALSE]

\* UPDATE users SET email_verified = true, updated_at = NOW() WHERE id = $1
set_email_verified(us, id) == [us EXCEPT ![id].email_verified = TRUE]

\* UPDATE users SET password_hash = $1, updated_at = NOW() WHERE id = $2
set_password_hash(us, id, hash) == [us EXCEPT ![id].password_hash = hash]

\* A row written inside an open transaction stays locked until the
\* transaction ends; another writer of that row waits.
InTransaction(q) == proc[q].pc \in {"ve_commit", "rp_commit"}
TokenLocked(p, id) ==
    \E q \in Procs \ {p} : InTransaction(q) /\ proc[q].auth_token.id = id
UserLocked(p, id) ==
    \E q \in Procs \ {p} : InTransaction(q) /\ proc[q].auth_token.user_id = id

\* q has invalidated the pair's tokens (or created the user) and not yet inserted
InWindow(q, user_id, ty) ==
    /\ proc[q].user.id = user_id
    /\ \/ ty = "email_verification" /\ proc[q].pc \in {"su_insert_token", "rv_insert"}
       \/ ty = "password_reset" /\ proc[q].pc = "fp_insert"

Overlap(p, user_id, ty) ==
    IF \E q \in Procs \ {p} : InWindow(q, user_id, ty)
    THEN raced \cup {<<user_id, ty>>}
    ELSE raced

\* ------------------------------------------------------------ step helpers
\* nothing is being written out: the previous step's output has left
Quiet == response = NoResponse /\ mail = NoMail

\* a request is taken by the first idle handler
Accepts(p) ==
    /\ Quiet
    /\ proc[p].pc = "idle"
    /\ \A q \in Procs : q < p => proc[q].pc # "idle"

At(p, pc) == Quiet /\ proc[p].pc = pc

\* what the client sent, kept beside the response it gets
Request(email, token, password) ==
    [NoRequest EXCEPT !.email = email, !.token = token, !.password = password]

Reply(op, request, r) ==
    [op |-> op, request |-> request, status |-> r.status, success |-> r.success,
     message |-> r.message, data |-> r.data]

\* the handler returns: its locals and any open transaction are dropped
Return(p, reply) ==
    /\ proc' = [proc EXCEPT ![p] = Idle]
    /\ response' = reply
    /\ UNCHANGED admitted
    /\ UNCHANGED clap_vars

Goto(p, locals) ==
    /\ proc' = [proc EXCEPT ![p] = locals]
    /\ UNCHANGED <<response, admitted>>
    /\ UNCHANGED clap_vars

\* the request gets past its first statement
Admit(p, locals) ==
    /\ admitted < MaxRequests
    /\ admitted' = admitted + 1
    /\ proc' = [proc EXCEPT ![p] = locals]
    /\ UNCHANGED response
    /\ UNCHANGED clap_vars

\* a send whose error is returned with "?"
after_send_propagating(delivered, reply) ==
    IF delivered THEN reply ELSE into_response(InternalServerError)

\* if let Err(e) = email_service.send_..(..).await { tracing::error!(..) }:
\* the outcome of the send is logged and dropped
after_send(delivered, reply) == reply

\* a best-effort send, then the handler's return: the relay accepts the
\* message or it does not
Send(p, kind, to, token, op, request, reply) ==
    \E delivered \in BOOLEAN :
        /\ mail' = [kind |-> kind, to |-> to, token |-> token, delivered |-> delivered]
        /\ Return(p, Reply(op, request, after_send(delivered, reply)))

\* a storage error passed on as a client error
internal_error_as_bad_request == into_response(BadRequest("Database error"))

internal_error == into_response(InternalServerError)
invalid_token == into_response(BadRequest("Invalid or expired token"))

\* ------------------------------------------------------------------ signup
\* a duplicate key that the error mapping does not recognise
signup_conflict_unrecognised == into_response(InternalServerError)

\* e.to_string().contains("duplicate key value")
signup_conflict == into_response(Conflict("Username or Email already exists"))

SignupRequest(payload) ==
    [NoRequest EXCEPT !.username = payload.username, !.email = payload.email]

\* a sign-up that opens a session at once
signup_created_with_session(user) ==
    ApiCreated("Account created. Please check your email to verify your account.",
               [kind |-> "auth", token |-> create_token(user.id, now),
                user |-> UserResponse(user)])

signup_created(user) ==
    ApiCreated("Account created. Please check your email to verify your account.",
               UserResponse(user))

SignupInsertUser(p, payload, salt) ==
    /\ Accepts(p)
    /\ UNCHANGED <<mail, auth_tokens, now, raced>>
    /\ IF ~(validate_email(payload.email) /\ validate_password(payload.password))
       THEN /\ Return(p, Reply("signup", NoRequest,
                        into_response(UnprocessableEntity("validation"))))
            /\ UNCHANGED users
       ELSE \/ /\ Return(p, Reply("signup", NoRequest, internal_error))
               /\ UNCHANGED users
            \/ /\ DuplicateKey(payload.username, payload.email)
               /\ Return(p, Reply("signup", SignupRequest(payload), signup_conflict))
               /\ UNCHANGED users
            \/ /\ ~DuplicateKey(payload.username, payload.email)
               /\ LET user == new_user(payload.username, payload.email,
                                       hash_password(payload.password, salt))
                  IN /\ users' = Append(users, user)
                     /\ Admit(p, [Idle EXCEPT !.pc = "su_insert_token", !.user = user,
                                              !.password = payload.password])

SignupInsertToken(p) ==
    /\ At(p, "su_insert_token")
    /\ UNCHANGED <<mail, users, now, raced>>
    /\ \/ /\ Return(p, Reply("signup", NoRequest, internal_error))
          /\ UNCHANGED auth_tokens
       \/ LET row == new_auth_token(proc[p].user.id, "email_verification", now + VerificationTtl)
          IN /\ auth_tokens' = Append(auth_tokens, row)
             /\ Goto(p, [proc[p] EXCEPT !.pc = "su_send", !.auth_token = row])

SignupSend(p) ==
    /\ At(p, "su_send")
    /\ Send(p, "verification", proc[p].user.email, proc[p].auth_token.token,
            "signup", Request(proc[p].user.email, 0, ""), signup_created(proc[p].user))
    /\ UNCHANGED <<users, auth_tokens, now, raced>>

\* ------------------------------------------------------------ verify_email
verify_email_ok == ApiOk("Email verified successfully")

VerifyEmailSelect(p, token) ==
    /\ Accepts(p)
    /\ UNCHANGED <<mail, users, auth_tokens, now, raced>>
    /\ \/ Return(p, Reply("verify_email", NoRequest, internal_error))
       \/ LET found == find_live(token, "email_verification")
          IN IF found = {}
             THEN Return(p, Reply("verify_email", Request("", token, ""), invalid_token))
             ELSE Admit(p, [Idle EXCEPT !.pc = "ve_transaction",
                                        !.auth_token = CHOOSE r \in found : TRUE])

\* pool.begin() and the two UPDATEs run inside the transaction: the rows are
\* locked and the writes stay invisible to every other request until commit
VerifyEmailTransaction(p) ==
    /\ At(p, "ve_transaction")
    /\ UNCHANGED <<mail, users, auth_tokens, now, raced>>
    /\ \/ Return(p, Reply("verify_email", NoRequest, internal_error))
       \/ /\ ~TokenLocked(p, proc[p].auth_token.id)
          /\ ~UserLocked(p, proc[p].auth_token.user_id)
          /\ Goto(p, [proc[p] EXCEPT
                        !.pc = "ve_commit",
                        !.tx_start = now,
                        !.user = set_email_verified(users, proc[p].auth_token.user_id)
                                        [proc[p].auth_token.user_id]])

\* tx.commit(): both statements of the transaction take effect together
verify_email_commit_tokens(p) == consume(auth_tokens, proc[p].auth_token.id, proc[p].tx_start)
\* a commit that loses the UPDATE of users
verify_email_commit_nothing(p) == users
verify_email_commit_users(p) == set_email_verified(users, proc[p].auth_token.user_id)

VerifyEmailCommit(p) ==
    /\ At(p, "ve_commit")
    /\ UNCHANGED <<mail, now, raced>>
    /\ \/ /\ Return(p, Reply("verify_email", NoRequest, internal_error))
          /\ UNCHANGED <<users, auth_tokens>>
       \/ /\ auth_tokens' = verify_email_commit_tokens(p)
          /\ users' = verify_email_commit_users(p)
          /\ Goto(p, [proc[p] EXCEPT !.pc = "ve_send", !.tx_start = NULL])

VerifyEmailSend(p) ==
    /\ At(p, "ve_send")
    /\ Send(p, "welcome", proc[p].user.email, 0,
            "verify_email", Request("", proc[p].auth_token.token, ""), verify_email_ok)
    /\ UNCHANGED <<users, auth_tokens, now, raced>>

\* ----------------------------------------------------- resend_verification
resend_verification_absent == ApiOk("If an account exists, a verification email has been sent.")
resend_verification_verified == ApiOk("Email is already verified.")
resend_verification_sent == ApiOk("If an account exists, a verification email has been sent.")

\* a resend that does not look at email_verified
ResendVerificationSelect_any_user(p, email) ==
    /\ Accepts(p)
    /\ UNCHANGED <<mail, users, auth_tokens, now, raced>>
    /\ IF ~validate_email(email)
       THEN Return(p, Reply("resend_verification", NoRequest,
                            into_response(UnprocessableEntity("validation"))))
       ELSE \/ Return(p, Reply("resend_verification", NoRequest, internal_error))
            \/ LET found == UsersByEmail(email)
               IN IF found = {}
                  THEN Return(p, Reply("resend_verification", Request(email, 0, ""),
                                       resend_verification_absent))
                  ELSE Admit(p, [Idle EXCEPT !.pc = "rv_invalidate",
                                             !.user = CHOOSE u \in found : TRUE])

ResendVerificationSelect(p, email) ==
    /\ Accepts(p)
    /\ UNCHANGED <<mail, users, auth_tokens, now, raced>>
    /\ IF ~validate_email(email)
       THEN Return(p, Reply("resend_verification", NoRequest,
                            into_response(UnprocessableEntity("validation"))))
       ELSE \/ Return(p, Reply("resend_verification", NoRequest, internal_error))
            \/ LET found == UsersByEmail(email)
               IN IF found = {}
                  THEN Return(p, Reply("resend_verification", Request(email, 0, ""),
                                       resend_verification_absent))
                  ELSE LET user == CHOOSE u \in found : TRUE
                       IN IF user.email_verified
                          THEN Return(p, Reply("resend_verification", Request(email, 0, ""),
                                               resend_verification_verified))
                          ELSE Admit(p, [Idle EXCEPT !.pc = "rv_invalidate", !.user = user])

ResendVerificationInvalidate(p) ==
    /\ At(p, "rv_invalidate")
    /\ UNCHANGED <<mail, users, now>>
    /\ \/ /\ Return(p, Reply("resend_verification", NoRequest, internal_error))
          /\ UNCHANGED <<auth_tokens, raced>>
       \/ /\ \A i \in DOMAIN auth_tokens :
                (/\ auth_tokens[i].user_id = proc[p].user.id
                 /\ auth_tokens[i].token_type = "email_verification"
                 /\ auth_tokens[i].used_at = NULL) => ~TokenLocked(p, i)
          /\ auth_tokens' = invalidate(auth_tokens, proc[p].user.id, "email_verification", now)
          /\ raced' = Overlap(p, proc[p].user.id, "email_verification")
          /\ Goto(p, [proc[p] EXCEPT !.pc = "rv_insert"])

ResendVerificationInsert(p) ==
    /\ At(p, "rv_insert")
    /\ UNCHANGED <<mail, users, now, raced>>
    /\ \/ /\ Return(p, Reply("resend_verification", NoRequest, internal_error))
          /\ UNCHANGED auth_tokens
       \/ LET row == new_auth_token(proc[p].user.id, "email_verification", now + VerificationTtl)
          IN /\ auth_tokens' = Append(auth_tokens, row)
             /\ Goto(p, [proc[p] EXCEPT !.pc = "rv_send", !.auth_token = row])

ResendVerificationSend(p) ==
    /\ At(p, "rv_send")
    /\ Send(p, "verification", proc[p].user.email, proc[p].auth_token.token,
            "resend_verification", Request(proc[p].user.email, 0, ""), resend_verification_sent)
    /\ UNCHANGED <<users, auth_tokens, now, raced>>

\* ------------------------------------------------------------------- login
\* an absent account answered with its own error
login_absent_not_found == into_response(NotFound("User not found"))
login_absent == into_response(Unauthorized)
login_wrong_password == into_response(Unauthorized)
login_unverified ==
    into_response(UnprocessableEntity("Please verify your email before logging in"))
login_ok(user, t) ==
    ApiSuccess([kind |-> "auth", token |-> create_token(user.id, t), user |-> UserResponse(user)])

\* a login that looks at email_verified before it compares the password
Login_verified_first(p, email, password) ==
    /\ Accepts(p)
    /\ UNCHANGED <<mail, users, auth_tokens, now, raced>>
    /\ IF ~validate_email(email)
       THEN Return(p, Reply("login", NoRequest, into_response(UnprocessableEntity("validation"))))
       ELSE \/ Return(p, Reply("login", NoRequest, internal_error))
            \/ LET found == UsersByEmail(email)
               IN IF found = {}
                  THEN Return(p, Reply("login", Request(email, 0, password), login_absent))
                  ELSE LET user == CHOOSE u \in found : TRUE
                       IN IF ~user.email_verified
                          THEN Return(p, Reply("login", Request(email, 0, password), login_unverified))
                          ELSE IF ~verify_password(user.password_hash, password)
                               THEN Return(p, Reply("login", Request(email, 0, password), login_wrong_password))
                               ELSE Return(p, Reply("login", Request(email, 0, password), login_ok(user, now)))

Login(p, email, password) ==
    /\ Accepts(p)
    /\ UNCHANGED <<mail, users, auth_tokens, now, raced>>
    /\ IF ~validate_email(email)
       THEN Return(p, Reply("login", NoRequest, into_response(UnprocessableEntity("validation"))))
       ELSE \/ Return(p, Reply("login", NoRequest, internal_error))
            \/ LET found == UsersByEmail(email)
               IN IF found = {}
                  THEN Return(p, Reply("login", Request(email, 0, password), login_absent))
                  ELSE LET user == CHOOSE u \in found : TRUE
                       IN IF ~verify_password(user.password_hash, password)
                          THEN Return(p, Reply("login", Request(email, 0, password), login_wrong_password))
                          ELSE IF ~user.email_verified
                               THEN Return(p, Reply("login", Request(email, 0, password), login_unverified))
                               ELSE Return(p, Reply("login", Request(email, 0, password), login_ok(user, now)))

\* --------------------------------------------------------- forgot_password
\* an absent account answered with its own error
forgot_password_not_found == into_response(NotFound("User not found"))
forgot_password_absent == ApiOk("If an account exists, a password reset email has been sent.")
forgot_password_sent == ApiOk("If an account exists, a password reset email has been sent.")

ForgotPasswordSelect(p, email) ==
    /\ Accepts(p)
    /\ UNCHANGED <<mail, users, auth_tokens, now, raced>>
    /\ IF ~validate_email(email)
       THEN Return(p, Reply("forgot_password", NoRequest,
                            into_response(UnprocessableEntity("validation"))))
       ELSE \/ Return(p, Reply("forgot_password", NoRequest, internal_error))
            \/ LET found == UsersByEmail(email)
               IN IF found = {}
                  THEN Return(p, Reply("forgot_password", Request(email, 0, ""), forgot_password_absent))
                  ELSE Admit(p, [Idle EXCEPT !.pc = "fp_invalidate",
                                             !.user = CHOOSE u \in found : TRUE])

ForgotPasswordInvalidate(p) ==
    /\ At(p, "fp_invalidate")
    /\ UNCHANGED <<mail, users, now>>
    /\ \/ /\ Return(p, Reply("forgot_password", NoRequest, internal_error))
          /\ UNCHANGED <<auth_tokens, raced>>
       \/ /\ \A i \in DOMAIN auth_tokens :
                (/\ auth_tokens[i].user_id = proc[p].user.id
                 /\ auth_tokens[i].token_type = "password_reset"
                 /\ auth_tokens[i].used_at = NULL) => ~TokenLocked(p, i)
          /\ auth_tokens' = invalidate(auth_tokens, proc[p].user.id, "password_reset", now)
          /\ raced' = Overlap(p, proc[p].user.id, "password_reset")
          /\ Goto(p, [proc[p] EXCEPT !.pc = "fp_insert"])

ForgotPasswordInsert(p) ==
    /\ At(p, "fp_insert")
    /\ UNCHANGED <<mail, users, now, raced>>
    /\ \/ /\ Return(p, Reply("forgot_password", NoRequest, internal_error))
          /\ UNCHANGED auth_tokens
       \/ LET row == new_auth_token(proc[p].user.id, "password_reset", now + ResetTtl)
          IN /\ auth_tokens' = Append(auth_tokens, row)
             /\ Goto(p, [proc[p] EXCEPT !.pc = "fp_send", !.auth_token = row])

ForgotPasswordSend(p) ==
    /\ At(p, "fp_send")
    /\ Send(p, "password_reset", proc[p].user.email, proc[p].auth_token.token,
            "forgot_password", Request(proc[p].user.email, 0, ""), forgot_password_sent)
    /\ UNCHANGED <<users, auth_tokens, now, raced>>

\* ---------------------------------------------------------- reset_password
reset_password_ok == ApiOk("Password reset successfully")

ResetPasswordSelect(p, token, new_password, salt) ==
    /\ Accepts(p)
    /\ UNCHANGED <<mail, users, auth_tokens, now, raced>>
    /\ IF ~validate_password(new_password)
       THEN Return(p, Reply("reset_password", NoRequest,
                            into_response(UnprocessableEntity("validation"))))
       ELSE \/ Return(p, Reply("reset_password", NoRequest, internal_error))
            \/ LET found == find_live(token, "password_reset")
               IN IF found = {}
                  THEN Return(p, Reply("reset_password", Request("", token, ""), invalid_token))
                  ELSE Admit(p, [Idle EXCEPT !.pc = "rp_transaction",
                                             !.auth_token = CHOOSE r \in found : TRUE,
                                             !.password = new_password,
                                             !.password_hash = hash_password(new_password, salt)])

ResetPasswordTransaction(p) ==
    /\ At(p, "rp_transaction")
    /\ UNCHANGED <<mail, users, auth_tokens, now, raced>>
    /\ \/ Return(p, Reply("reset_password", NoRequest, internal_error))
       \/ /\ ~TokenLocked(p, proc[p].auth_token.id)
          /\ ~UserLocked(p, proc[p].auth_token.user_id)
          /\ Goto(p, [proc[p] EXCEPT !.pc = "rp_commit", !.tx_start = now])

\* a commit that loses the UPDATE of auth_tokens
reset_password_commit_no_consume(p) == auth_tokens
reset_password_commit_tokens(p) == consume(auth_tokens, proc[p].auth_token.id, proc[p].tx_start)
\* the UPDATE of users without its WHERE clause
reset_password_commit_all_users(p) ==
    [i \in DOMAIN users |-> [users[i] EXCEPT !.password_hash = proc[p].password_hash]]
\* the UPDATE of users that also resets email_verified
reset_password_commit_unverifying(p) ==
    [users EXCEPT ![proc[p].auth_token.user_id] =
        [@ EXCEPT !.password_hash = proc[p].password_hash, !.email_verified = FALSE]]
reset_password_commit_users(p) ==
    set_password_hash(users, proc[p].auth_token.user_id, proc[p].password_hash)

ResetPasswordCommit(p) ==
    /\ At(p, "rp_commit")
    /\ UNCHANGED <<mail, now, raced>>
    /\ \/ /\ Return(p, Reply("reset_password", NoRequest, internal_error))
          /\ UNCHANGED <<users, auth_tokens>>
       \/ /\ auth_tokens' = reset_password_commit_tokens(p)
          /\ users' = reset_password_commit_users(p)
          /\ Return(p, Reply("reset_password", Request("", proc[p].auth_token.token, ""), reset_password_ok))

\* ---------------------------------------------------- get_me, get_user_by_id
user_not_found == into_response(NotFound("User not found"))

\* the SELECT without its WHERE clause
UsersByAnyId(id) == Rows(users)

\* SELECT * FROM users WHERE id = $1
UsersById(id) == {u \in Rows(users) : u.id = id}

\* the header of a request: a token of this kind for this subject, issued
\* that long ago
Bearer(kind, sub, age) ==
    CASE kind = "missing" -> NoBearer
      [] kind = "malformed" -> [NoBearer EXCEPT !.kind = "malformed"]
      [] kind = "forged" -> [create_token(sub, now - age) EXCEPT !.kind = "forged"]
      [] kind = "signed" -> create_token(sub, now - age)

BearerRequest(bearer) == [NoRequest EXCEPT !.bearer = bearer]
IdRequest(id) == [NoRequest EXCEPT !.id = id]

GetMe(p, kind, sub, age) ==
    /\ Accepts(p)
    /\ age <= now
    /\ kind \in {"missing", "malformed"} => sub = 1 /\ age = 0
    /\ UNCHANGED <<mail, users, auth_tokens, now, raced>>
    /\ LET bearer == Bearer(kind, sub, age)
           extracted == from_request_parts(bearer, now)
       IN IF ~extracted.ok
          THEN Return(p, Reply("get_me", BearerRequest(bearer), bearer_rejected))
          ELSE \/ Return(p, Reply("get_me", NoRequest, internal_error))
               \/ LET found == UsersById(extracted.claims.sub)
                  IN IF found = {}
                     THEN Return(p, Reply("get_me", BearerRequest(bearer), user_not_found))
                     ELSE Return(p, Reply("get_me", BearerRequest(bearer),
                                          ApiSuccess(UserResponse(CHOOSE u \in found : TRUE))))

GetUserById(p, id) ==
    /\ Accepts(p)
    /\ UNCHANGED <<mail, users, auth_tokens, now, raced>>
    /\ \/ Return(p, Reply("get_user_by_id", NoRequest, internal_error))
       \/ LET found == UsersById(id)
          IN IF found = {}
             THEN Return(p, Reply("get_user_by_id", IdRequest(id), user_not_found))
             ELSE Return(p, Reply("get_user_by_id", IdRequest(id),
                                  ApiSuccess(UserResponse(CHOOSE u \in found : TRUE))))

\* ------------------------------------------------------------- environment
\* time passes
Tick(d) ==
    /\ Quiet
    /\ ClockSteps(now + d) <= MaxTicks
    /\ now' = now + d
    /\ UNCHANGED <<users, auth_tokens, proc, response, mail, raced, admitted>>
    /\ UNCHANGED clap_vars

\* the client disconnects: the handler's future is dropped at its await
\* point, and an open transaction rolls back
Cancel(p) ==
    /\ Quiet
    /\ proc[p].pc # "idle"
    /\ proc' = [proc EXCEPT ![p] = Idle]
    /\ UNCHANGED <<users, auth_tokens, now, response, mail, raced, admitted>>
    /\ UNCHANGED clap_vars

\* the response reaches the client and the message the relay
Deliver ==
    /\ ~Quiet
    /\ response' = NoResponse
    /\ mail' = NoMail
    /\ UNCHANGED <<users, auth_tokens, now, proc, raced, admitted>>
    /\ UNCHANGED clap_vars

Next ==
    \/ \E p \in Procs, payload \in RegisterUsers, salt \in Salts :
            SignupInsertUser(p, payload, salt)
    \/ \E p \in Procs : SignupInsertToken(p)
    \/ \E p \in Procs : SignupSend(p)
    \/ \E p \in Procs, token \in 1..MaxRequests : VerifyEmailSelect(p, token)
    \/ \E p \in Procs : VerifyEmailTransaction(p)
    \/ \E p \in Procs : VerifyEmailCommit(p)
    \/ \E p \in Procs : VerifyEmailSend(p)
    \/ \E p \in Procs, email \in Emails \cup {MalformedEmail} :
            ResendVerificationSelect(p, email)
    \/ \E p \in Procs : ResendVerificationInvalidate(p)
    \/ \E p \in Procs : ResendVerificationInsert(p)
    \/ \E p \in Procs : ResendVerificationSend(p)
    \/ \E p \in Procs, email \in Emails \cup {MalformedEmail}, password \in Passwords :
            Login(p, email, password)
    \/ \E p \in Procs, email \in Emails \cup {MalformedEmail} : ForgotPasswordSelect(p, email)
    \/ \E p \in Procs : ForgotPasswordInvalidate(p)
    \/ \E p \in Procs : ForgotPasswordInsert(p)
    \/ \E p \in Procs : ForgotPasswordSend(p)
    \/ \E p \in Procs, token \in 1..MaxRequests, new_password \in NewPasswords, salt \in Salts :
            ResetPasswordSelect(p, token, new_password, salt)
    \/ \E p \in Procs : ResetPasswordTransaction(p)
    \/ \E p \in Procs : ResetPasswordCommit(p)
    \/ \E p \in Procs, kind \in BearerKinds, sub \in UserIds, age \in BearerAges :
            GetMe(p, kind, sub, age)
    \/ \E p \in Procs, id \in UserIds : GetUserById(p, id)
    \/ \E d \in TickSteps : Tick(d)
    \/ \E p \in Procs : Cancel(p)
    \/ Deliver

Spec == Init /\ [][Next]_vars

\* ------------------------------------------------ clap_story, clap_comment
max_claps == into_response(UnprocessableEntity("Max 50 claps allowed"))
story_not_found == into_response(NotFound("Story not found"))
comment_not_found == into_response(NotFound("Comment not found"))
clap_recorded == ApiOk("Clap recorded")

\* get_comment_response: the comment as it is stored now
CommentResponse(id) == [kind |-> "comment", id |-> id, clap_count |-> comments[id]]

\* the request: the bearer token and the id in the path
ClapRequest(bearer, id) == [NoRequest EXCEPT !.bearer = bearer, !.id = id]

ClapAccepts(p) ==
    /\ Quiet
    /\ clap_proc[p].pc = "idle"
    /\ \A q \in Procs : q < p => clap_proc[q].pc # "idle"

ClapAt(p, pc) == Quiet /\ clap_proc[p].pc = pc

\* the handler returns: its locals are dropped, an open transaction rolls back
ClapReturn(p, reply) ==
    /\ clap_proc' = [clap_proc EXCEPT ![p] = ClapIdle]
    /\ response' = reply
    /\ UNCHANGED auth_vars

ClapGoto(p, locals) ==
    /\ clap_proc' = [clap_proc EXCEPT ![p] = locals]
    /\ UNCHANGED response
    /\ UNCHANGED auth_vars

\* the upsert waits for a transaction that has written the same row of
\* story_claps or comment_claps and has not ended yet
ClapRowLocked(p, pc) ==
    \E q \in Procs \ {p} :
        /\ clap_proc[q].pc = pc
        /\ clap_proc[q].id = clap_proc[p].id
        /\ clap_proc[q].user_id = clap_proc[p].user_id

\* if current_count >= 50
over_cap(current_count) == current_count >= ClapCap

\* pool.begin(), SELECT id FROM stories WHERE id = $1 AND status = 'published',
\* SELECT claps_count FROM story_claps WHERE story_id = $1 AND user_id = $2
ClapStorySelect(p, kind, user_id, id) ==
    /\ ClapAccepts(p)
    /\ UNCHANGED <<story_claps, comment_claps, stories, comments>>
    /\ LET bearer == Bearer(kind, user_id, 0)
           extracted == from_request_parts(bearer, now)
       IN IF ~extracted.ok
          THEN ClapReturn(p, Reply("clap_story", ClapRequest(bearer, id), bearer_rejected))
          ELSE \/ ClapReturn(p, Reply("clap_story", NoRequest, internal_error))
               \/ IF id \notin PublishedStories
                  THEN ClapReturn(p, Reply("clap_story", ClapRequest(bearer, id), story_not_found))
                  ELSE LET current_count == story_claps[<<id, extracted.claims.sub>>]
                       IN IF over_cap(current_count)
                          THEN ClapReturn(p, Reply("clap_story", ClapRequest(bearer, id), max_claps))
                          ELSE ClapGoto(p, [pc |-> "cs_upsert", user_id |-> extracted.claims.sub,
                                            id |-> id])

\* INSERT INTO story_claps .. ON CONFLICT (story_id, user_id) DO UPDATE SET
\* claps_count = story_claps.claps_count + 1, and UPDATE stories SET
\* clap_count = clap_count + 1, inside the transaction
ClapStoryUpsert(p) ==
    /\ ClapAt(p, "cs_upsert")
    /\ UNCHANGED <<story_claps, comment_claps, stories, comments>>
    /\ \/ ClapReturn(p, Reply("clap_story", NoRequest, internal_error))
       \/ /\ ~ClapRowLocked(p, "cs_commit")
          /\ ClapGoto(p, [clap_proc[p] EXCEPT !.pc = "cs_commit"])

\* tx.commit(): the row's count, as it is now, and the story's total go up by one
ClapStoryCommit(p) ==
    /\ ClapAt(p, "cs_commit")
    /\ UNCHANGED <<comment_claps, comments>>
    /\ \/ /\ ClapReturn(p, Reply("clap_story", NoRequest, internal_error))
          /\ UNCHANGED <<story_claps, stories>>
       \/ /\ story_claps' = [story_claps EXCEPT ![<<clap_proc[p].id, clap_proc[p].user_id>>] = @ + 1]
          /\ stories' = [stories EXCEPT ![clap_proc[p].id] = @ + 1]
          /\ ClapReturn(p, Reply("clap_story",
                                 ClapRequest(create_token(clap_proc[p].user_id, now), clap_proc[p].id),
                                 clap_recorded))

\* pool.begin(), SELECT id FROM comments WHERE id = $1,
\* SELECT claps_count FROM comment_claps WHERE comment_id = $1 AND user_id = $2
ClapCommentSelect(p, kind, user_id, id) ==
    /\ ClapAccepts(p)
    /\ UNCHANGED <<story_claps, comment_claps, stories, comments>>
    /\ LET bearer == Bearer(kind, user_id, 0)
           extracted == from_request_parts(bearer, now)
       IN IF ~extracted.ok
          THEN ClapReturn(p, Reply("clap_comment", ClapRequest(bearer, id), bearer_rejected))
          ELSE \/ ClapReturn(p, Reply("clap_comment", NoRequest, internal_error))
               \/ IF id \notin StoredComments
                  THEN ClapReturn(p, Reply("clap_comment", ClapRequest(bearer, id), comment_not_found))
                  ELSE LET current_count == comment_claps[<<id, extracted.claims.sub>>]
                       IN IF over_cap(current_count)
                          THEN ClapReturn(p, Reply("clap_comment", ClapRequest(bearer, id), max_claps))
                          ELSE ClapGoto(p, [pc |-> "cc_upsert", user_id |-> extracted.claims.sub,
                                            id |-> id])

ClapCommentUpsert(p) ==
    /\ ClapAt(p, "cc_upsert")
    /\ UNCHANGED <<story_claps, comment_claps, stories, comments>>
    /\ \/ ClapReturn(p, Reply("clap_comment", NoRequest, internal_error))
       \/ /\ ~ClapRowLocked(p, "cc_commit")
          /\ ClapGoto(p, [clap_proc[p] EXCEPT !.pc = "cc_commit"])

ClapCommentCommit(p) ==
    /\ ClapAt(p, "cc_commit")
    /\ UNCHANGED <<story_claps, stories>>
    /\ \/ /\ ClapReturn(p, Reply("clap_comment", NoRequest, internal_error))
          /\ UNCHANGED <<comment_claps, comments>>
       \/ /\ comment_claps' =
                [comment_claps EXCEPT ![<<clap_proc[p].id, clap_proc[p].user_id>>] = @ + 1]
          /\ comments' = [comments EXCEPT ![clap_proc[p].id] = @ + 1]
          /\ ClapGoto(p, [clap_proc[p] EXCEPT !.pc = "cc_response"])

\* get_comment_response(&pool, comment_id), after the commit
ClapCommentResponse(p) ==
    /\ ClapAt(p, "cc_response")
    /\ UNCHANGED <<story_claps, comment_claps, stories, comments>>
    /\ \/ ClapReturn(p, Reply("clap_comment", NoRequest, internal_error))
       \/ ClapReturn(p, Reply("clap_comment",
                              ClapRequest(create_token(clap_proc[p].user_id, now), clap_proc[p].id),
                              ApiSuccess(CommentResponse(clap_proc[p].id))))

\* the client disconnects: an open transaction rolls back
ClapCancel(p) ==
    /\ Quiet
    /\ clap_proc[p].pc # "idle"
    /\ clap_proc' = [clap_proc EXCEPT ![p] = ClapIdle]
    /\ UNCHANGED <<response, story_claps, comment_claps, stories, comments>>
    /\ UNCHANGED auth_vars

NextClaps ==
    \/ \E p \in Procs, kind \in BearerKinds, user_id \in ClapUsers, id \in StoryIds :
            ClapStorySelect(p, kind, user_id, id)
    \/ \E p \in Procs : ClapStoryUpsert(p)
    \/ \E p \in Procs : ClapStoryCommit(p)
    \/ \E p \in Procs, kind \in BearerKinds, user_id \in ClapUsers, id \in CommentIds :
            ClapCommentSelect(p, kind, user_id, id)
    \/ \E p \in Procs : ClapCommentUpsert(p)
    \/ \E p \in Procs : ClapCommentCommit(p)
    \/ \E p \in Procs : ClapCommentResponse(p)
    \/ \E p \in Procs : ClapCancel(p)
    \/ Deliver

\* the clap handlers on their own: the tables of accounts and tokens stay as
\* they are
SpecClaps == Init /\ [][NextClaps]_vars

\* ================================================================== claims
LookupOps == {"verify_email", "reset_password"}
TypeOf(op) == IF op = "verify_email" THEN "email_verification" ELSE "password_reset"
TransactionPc(op) == IF op = "verify_email" THEN "ve_transaction" ELSE "rp_transaction"

\* the 400 a token lookup answers with
InvalidTokenReply(op, token) ==
    [op |-> op,
     request |-> [username |-> "", email |-> "", token |-> token, password |-> "",
                  bearer |-> NoBearer, id |-> 0],
     status |-> 400, success |-> FALSE, message |-> "Invalid or expired token",
     data |-> NoData]

\* this step is a request of kind op that returns from its first statement
FirstStepReturn(op) ==
    /\ response = NoResponse
    /\ response' # NoResponse
    /\ response'.op = op
    /\ proc' = proc

\* this step is handler p's lookup accepting the token string
Accepted(p, op, token) ==
    /\ proc[p].pc = "idle"
    /\ proc'[p].pc = TransactionPc(op)
    /\ proc'[p].auth_token.token = token

\* handler p has committed verify-email with the token string and can only answer 200
VerifyCommitted(p, token) ==
    proc[p].pc = "ve_send" /\ proc[p].auth_token.token = token

VerifySucceeded(token) ==
    /\ response.op = "verify_email"
    /\ response.success
    /\ response.request.token = token

\* C1: of the verify-email requests presenting one token, at most one succeeds:
\* never have two handlers both committed it, nor has one answered 200 while
\* another has committed it too.
C1_AtMostOneSucceeds ==
    \A token \in 1..MaxRequests :
        /\ \A p, q \in Procs :
              p # q => ~(VerifyCommitted(p, token) /\ VerifyCommitted(q, token))
        /\ \A p \in Procs : ~(VerifySucceeded(token) /\ VerifyCommitted(p, token))

\* C2: single use: once a token row carries used_at, it carries it for ever,
\* no verify-email or reset-password lookup accepts its token string, and a
\* request presenting it is answered 400 "Invalid or expired token".
C2_SingleUse ==
    [][\A t \in DOMAIN auth_tokens :
          auth_tokens[t].used_at # NULL =>
              /\ auth_tokens'[t].used_at # NULL
              /\ \A op \in LookupOps :
                    /\ \A p \in Procs : ~Accepted(p, op, auth_tokens[t].token)
                    /\ (FirstStepReturn(op) /\ response'.request.token = auth_tokens[t].token)
                          => response' = InvalidTokenReply(op, auth_tokens[t].token)]_vars

\* a token consumed by a committed verify-email, not yet expired, is presented
\* again and refused
C2_Witness ==
    \E t \in DOMAIN auth_tokens :
        /\ auth_tokens[t].token_type = "email_verification"
        /\ auth_tokens[t].used_at # NULL
        /\ now < auth_tokens[t].expires_at
        /\ users[auth_tokens[t].user_id].email_verified
        /\ response = InvalidTokenReply("verify_email", auth_tokens[t].token)

\* C3: a lookup accepts a token string iff a row of the operation's type
\* carries it with used_at null and now < expires_at; an absent, a used and an
\* expired token all get the one 400 response, and nothing is written.
C3_LiveLookup ==
    [][\A op \in LookupOps, token \in 1..MaxRequests :
          LET live == \E i \in DOMAIN auth_tokens :
                          /\ auth_tokens[i].token = token
                          /\ auth_tokens[i].token_type = TypeOf(op)
                          /\ auth_tokens[i].used_at = NULL
                          /\ now < auth_tokens[i].expires_at
          IN /\ (\E p \in Procs : Accepted(p, op, token)) => live
             /\ (FirstStepReturn(op) /\ response'.request.token = token) =>
                    /\ ~live
                    /\ response' = InvalidTokenReply(op, token)
                    /\ UNCHANGED <<users, auth_tokens>>]_vars

\* an unused token presented at the very instant it expires is refused
C3_Witness ==
    \E t \in DOMAIN auth_tokens, op \in LookupOps :
        /\ auth_tokens[t].token_type = TypeOf(op)
        /\ auth_tokens[t].used_at = NULL
        /\ now = auth_tokens[t].expires_at
        /\ response = InvalidTokenReply(op, auth_tokens[t].token)

TokenTypes == {"email_verification", "password_reset"}

\* the rows of a (user, type) pair, and those of them that are live
IssuedOf(user_id, ty) ==
    {i \in DOMAIN auth_tokens :
        auth_tokens[i].user_id = user_id /\ auth_tokens[i].token_type = ty}
LiveOf(user_id, ty) ==
    {i \in IssuedOf(user_id, ty) :
        auth_tokens[i].used_at = NULL /\ now < auth_tokens[i].expires_at}

\* at most one row of the pair is live, and it is the last one issued
NewestOnly(user_id, ty) ==
    \A i \in LiveOf(user_id, ty) : \A j \in IssuedOf(user_id, ty) : j <= i

\* C4 as stated: in every reachable state each (user, type) pair has at most
\* one live token, the most recently issued one.
C4_OneLivePerPair ==
    \A user_id \in DOMAIN users, ty \in TokenTypes : NewestOnly(user_id, ty)

\* C4 amended: the same, for every pair on which no two issuing requests
\* overlapped between invalidating (or creating the user) and inserting.
C4_OneLivePerUnracedPair ==
    \A user_id \in DOMAIN users, ty \in TokenTypes :
        <<user_id, ty>> \notin raced => NewestOnly(user_id, ty)

\* a pair issued to twice without overlap: the older token was invalidated
\* before its expiry and the newer one is live
C4_Witness ==
    \E user_id \in DOMAIN users, ty \in TokenTypes :
        /\ <<user_id, ty>> \notin raced
        /\ Cardinality(IssuedOf(user_id, ty)) >= 2
        /\ Cardinality(LiveOf(user_id, ty)) = 1
        /\ \E i \in IssuedOf(user_id, ty) :
              auth_tokens[i].used_at # NULL /\ now < auth_tokens[i].expires_at

\* C5: consuming the token and applying the gated effect are atomic: a step of
\* a handler that is inside verify-email's or reset-password's transaction
\* either leaves users and auth_tokens as they are (failure, disconnect) or is
\* the commit, which writes used_at and the effect together.
C5_AtomicConsume ==
    [][\A p \in Procs :
          (/\ proc[p].pc \in {"ve_transaction", "ve_commit", "rp_transaction", "rp_commit"}
           /\ proc'[p] # proc[p]) =>
              LET tok == proc[p].auth_token
              IN \/ UNCHANGED <<users, auth_tokens>>
                 \/ /\ proc[p].pc = "ve_commit"
                    /\ proc'[p].pc = "ve_send"
                    /\ auth_tokens'[tok.id].used_at = proc[p].tx_start
                    /\ auth_tokens'[tok.id].used_at # NULL
                    /\ users'[tok.user_id].email_verified
                 \/ /\ proc[p].pc = "rp_commit"
                    /\ response'.op = "reset_password" /\ response'.success
                    /\ auth_tokens'[tok.id].used_at = proc[p].tx_start
                    /\ auth_tokens'[tok.id].used_at # NULL
                    /\ users'[tok.user_id].password_hash = proc[p].password_hash]_vars

\* a verify-email transaction has committed: the token is used and its owner
\* verified, and the handler has its welcome mail left to send
C5_Witness ==
    \E p \in Procs :
        /\ proc[p].pc = "ve_send"
        /\ auth_tokens[proc[p].auth_token.id].used_at # NULL
        /\ users[proc[p].auth_token.user_id].email_verified

ForgotPasswordMessage == "If an account exists, a password reset email has been sent."

\* C6: short of a validation or storage failure, forgot-password answers every
\* e-mail with the same 200 and the same message, account or no account.
C6_ForgotPasswordUniform ==
    (response.op = "forgot_password" /\ response.status \notin {422, 500}) =>
        /\ response.status = 200
        /\ response.success
        /\ response.message = ForgotPasswordMessage
        /\ response.data = NoData

\* forgot-password has answered 200 for an address that no stored user has
C6_Witness ==
    /\ response.op = "forgot_password"
    /\ response.status = 200
    /\ users # <<>>
    /\ UsersByEmail(response.request.email) = {}

ResendVerificationMessage == "If an account exists, a verification email has been sent."

\* C7 as stated: every successful resend-verification carries the one generic
\* message, whether the account is absent, verified or unverified.
C7_ResendUniform ==
    (response.op = "resend_verification" /\ response.success) =>
        response.message = ResendVerificationMessage

LoginUnauthorized == [status |-> 401, success |-> FALSE, message |-> "Unauthorized", data |-> NoData]

\* what a login response says, without the request kept beside it
Outcome(r) == [status |-> r.status, success |-> r.success, message |-> r.message, data |-> r.data]

\* C8: login answers an unknown e-mail and a wrong password with the one 401
\* "Unauthorized", and a right password on an unverified account with a
\* failure that differs from it.
C8_LoginUniform ==
    (response.op = "login" /\ response.request # NoRequest) =>
        LET found == UsersByEmail(response.request.email)
        IN /\ (found = {} \/ \E u \in found :
                                ~verify_password(u.password_hash, response.request.password))
                  => Outcome(response) = LoginUnauthorized
           /\ (\E u \in found : /\ verify_password(u.password_hash, response.request.password)
                                /\ ~u.email_verified)
                  => ~response.success /\ Outcome(response) # LoginUnauthorized

\* a stored user's login with another password has been answered
C8_Witness ==
    /\ response.op = "login"
    /\ \E u \in UsersByEmail(response.request.email) :
          ~verify_password(u.password_hash, response.request.password)
    /\ Outcome(response) = LoginUnauthorized

\* C9 as stated: a right password on an unverified account is answered with an
\* error of the unauthorized kind (401), under a message of its own.
C9_UnverifiedIsUnauthorized ==
    (/\ response.op = "login"
     /\ \E u \in UsersByEmail(response.request.email) :
           verify_password(u.password_hash, response.request.password) /\ ~u.email_verified)
        => response.status = 401

C11_ForgotThenReset ==
    [][/\ \A p \in Procs :
             /\ (/\ proc[p].pc = "fp_insert"
                 /\ proc'[p].pc = "fp_send"
                 /\ <<proc[p].user.id, "password_reset">> \notin raced') =>
                    LET row == proc'[p].auth_token
                    IN /\ row.user_id = proc[p].user.id
                       /\ UsersByEmail(proc[p].user.email) # {}
                       /\ row.token_type = "password_reset"
                       /\ row.expires_at = now + 1 * 3600
                       /\ auth_tokens'[row.id] = row
                       /\ {i \in DOMAIN auth_tokens' :
                              /\ auth_tokens'[i].user_id = row.user_id
                              /\ auth_tokens'[i].token_type = "password_reset"
                              /\ auth_tokens'[i].used_at = NULL
                              /\ now' < auth_tokens'[i].expires_at} = {row.id}
             /\ (/\ proc[p].pc = "rp_commit"
                 /\ response'.op = "reset_password"
                 /\ response'.success) =>
                    LET id == proc[p].auth_token.id
                        owner == auth_tokens[id].user_id
                    IN /\ auth_tokens[id].token_type = "password_reset"
                       /\ auth_tokens'[id].used_at # NULL
                       /\ users' = [users EXCEPT ![owner].password_hash = proc[p].password_hash]
       /\ \A t \in DOMAIN auth_tokens :
             (/\ auth_tokens[t].used_at # NULL
              /\ response = NoResponse
              /\ response'.op = "reset_password"
              /\ response'.request.token = auth_tokens[t].token
              /\ proc' = proc)
                 => /\ response'.status = 400
                    /\ response'.message = "Invalid or expired token"
                    /\ UNCHANGED <<users, auth_tokens>>]_vars

\* the scenario ran to its end: a reset token issued at instant 0 was consumed
\* by a reset to "newpass1234", and the request replayed before the token's
\* expiry has been refused, the new hash still in place
C11_Witness ==
    \E t \in DOMAIN auth_tokens :
        /\ auth_tokens[t].token_type = "password_reset"
        /\ auth_tokens[t].expires_at = ResetTtl
        /\ auth_tokens[t].used_at # NULL
        /\ now < auth_tokens[t].expires_at
        /\ IssuedOf(auth_tokens[t].user_id, "password_reset") = {t}
        /\ verify_password(users[auth_tokens[t].user_id].password_hash, "newpass1234")
        /\ response.op = "reset_password"
        /\ response.status = 400
        /\ response.request.token = auth_tokens[t].token

\* C12: a login with the right password is answered with the
\* verify-email-required error whenever the account is unverified, and once
\* the account is verified it is answered 200 with a bearer token that the
\* extractor accepts at that instant and whose subject is the account's id.
C12_LoginBeforeAndAfterVerification ==
    (response.op = "login" /\ response.request # NoRequest) =>
        \A u \in UsersByEmail(response.request.email) :
            verify_password(u.password_hash, response.request.password) =>
                IF ~u.email_verified
                THEN /\ ~response.success
                     /\ response.message = "Please verify your email before logging in"
                     /\ response.data = NoData
                ELSE /\ response.success
                     /\ response.status = 200
                     /\ response.data.kind = "auth"
                     /\ response.data.user.id = u.id
                     /\ response.data.token.kind = "signed"
                     /\ response.data.token.sub = u.id
                     /\ response.data.token.exp >= now - Leeway

\* a user whose verification token was consumed has logged in and holds a token
C12_Witness ==
    /\ response.op = "login"
    /\ response.success
    /\ \E u \in UsersByEmail(response.request.email) :
          /\ u.email_verified
          /\ \E t \in IssuedOf(u.id, "email_verification") : auth_tokens[t].used_at # NULL
          /\ from_request_parts(response.data.token, now).ok
          /\ from_request_parts(response.data.token, now).claims.sub = u.id

\* the acknowledgment each sending operation ends with
Acknowledgment(op) ==
    CASE op = "signup" ->
            <<201, "Account created. Please check your email to verify your account.">>
      [] op = "verify_email" -> <<200, "Email verified successfully">>
      [] op = "resend_verification" ->
            <<200, "If an account exists, a verification email has been sent.">>
      [] op = "forgot_password" ->
            <<200, "If an account exists, a password reset email has been sent.">>

\* C13: whether the relay takes the message or fails, the step that sends it
\* writes neither users nor auth_tokens and answers with the operation's
\* success acknowledgment.
C13_SendFailureSwallowed ==
    [][(mail = NoMail /\ mail' # NoMail) =>
          /\ UNCHANGED <<users, auth_tokens>>
          /\ response'.op \in {"signup", "verify_email", "resend_verification", "forgot_password"}
          /\ response'.success
          /\ <<response'.status, response'.message>> = Acknowledgment(response'.op)
          /\ (response'.op = "signup") =>
                /\ response'.data.kind = "user"
                /\ response'.data.email = mail'.to]_vars

\* the relay refused a password-reset mail and the request succeeded all the
\* same, its token stored and live
C13_Witness ==
    /\ mail.kind = "password_reset"
    /\ ~mail.delivered
    /\ response.op = "forgot_password"
    /\ response.success
    /\ \E t \in DOMAIN auth_tokens :
          /\ auth_tokens[t].token = mail.token
          /\ auth_tokens[t].used_at = NULL

\* the one outcome of a rejected bearer token
BearerUnauthorized == [status |-> 401, success |-> FALSE, message |-> "", data |-> NoData]

\* C14 as stated: a login at instant t returns a token with exp = t + 1 hour;
\* presented before t + 1 hour it is accepted as its subject, presented after
\* t + 1 hour it is rejected with the one 401 that a missing header, a
\* malformed token and a bad signature get.
C14_BearerLifetime ==
    /\ (response.op = "login" /\ response.success) =>
          /\ response.data.token.iat = now
          /\ response.data.token.exp = now + 1 * 3600
    /\ (response.op = "get_me" /\ response.request # NoRequest) =>
          LET bearer == response.request.bearer
          IN /\ (bearer.kind = "signed" /\ now < bearer.iat + 1 * 3600) =>
                    /\ response.status # 401
                    /\ response.success => response.data.id = bearer.sub
             /\ bearer.kind = "signed" => bearer.exp = bearer.iat + 1 * 3600
             /\ (bearer.kind = "signed" /\ now > bearer.iat + 1 * 3600) =>
                    Outcome(response) = BearerUnauthorized
             /\ bearer.kind # "signed" => Outcome(response) = BearerUnauthorized

\* the request names a username or an e-mail that a stored user has
Collides(request) ==
    \E i \in DOMAIN users :
        users[i].username = request.username \/ users[i].email = request.email

\* C15: a sign-up whose username or e-mail a stored user has is answered 409
\* "Username or Email already exists" and stores no user, no token and sends
\* no mail; a 409 is given for no other sign-up; no two stored users share a
\* username or an e-mail, whatever the interleaving of sign-ups.
C15_SignupConflict ==
    [][/\ \A i, j \in DOMAIN users' :
             (users'[i].username = users'[j].username \/ users'[i].email = users'[j].email)
                 => i = j
       /\ (/\ response = NoResponse
           /\ response'.op = "signup"
           /\ response'.request.username # "") =>
              /\ Collides(response'.request)
              /\ response'.status = 409
              /\ response'.message = "Username or Email already exists"
              /\ ~response'.success
              /\ UNCHANGED <<users, auth_tokens, mail, proc>>
       /\ \A p \in Procs :
             (proc[p].pc = "idle" /\ proc'[p].pc = "su_insert_token") =>
                 /\ ~Collides(proc'[p].user)
                 /\ users' = Append(users, proc'[p].user)]_vars

\* a sign-up was refused for a username that another sign-up, still in
\* flight, had stored a moment before
C15_Witness ==
    /\ response.op = "signup"
    /\ response.status = 409
    /\ \E p \in Procs :
          /\ proc[p].pc \in {"su_insert_token", "su_send"}
          /\ proc[p].user.username = response.request.username
          /\ proc[p].user.email # response.request.email
    /\ \E i \in DOMAIN users : users[i].username = response.request.username

PublicFields == {"kind", "id", "username", "email", "email_verified"}

\* C16: whatever an auth operation answers, the user value in it is the public
\* projection: it has no password_hash field, on its own (signup, get_me,
\* get_user_by_id) or beside the bearer token (login); every success of these
\* four operations carries such a value of a stored user.
C16_NoPasswordHash ==
    /\ response.data.kind \in {"null", "user", "auth"}
    /\ response.data.kind = "user" =>
          /\ DOMAIN response.data = PublicFields
          /\ "password_hash" \notin DOMAIN response.data
    /\ response.data.kind = "auth" =>
          /\ DOMAIN response.data = {"kind", "token", "user"}
          /\ DOMAIN response.data.user = PublicFields
          /\ "password_hash" \notin DOMAIN response.data.user
    /\ (response.success /\ response.op \in {"signup", "get_me", "get_user_by_id"}) =>
          /\ response.data.kind = "user"
          /\ response.data.id \in DOMAIN users
          /\ response.data.username = users[response.data.id].username
    /\ (response.success /\ response.op = "login") => response.data.kind = "auth"

\* get_me has answered with the projection of a stored user who has a hash
C16_Witness ==
    /\ response.op = "get_me"
    /\ response.success
    /\ response.data.kind = "user"
    /\ users[response.data.id].password_hash # NoHash
    /\ response.data.email = users[response.data.id].email

\* the stored hash of user i lets exactly this password through
AcceptsOnly(us, i, password) ==
    /\ us[i].password_hash.alg = "argon2id"
    /\ us[i].password_hash.salt \in Salts
    /\ \A q \in Passwords \cup {ShortPassword, ""} :
          verify_password(us[i].password_hash, q) <=> q = password

\* C17: the hash stored at sign-up lets through the sign-up password and no
\* other; the hash stored by a reset-password commit lets through the new
\* password and no other, the previous one included; no other step changes a
\* stored hash; and a login succeeds only with a password that the hash
\* stored for its e-mail lets through.
C17_LatestPasswordOnly ==
    [][/\ \A p \in Procs :
             /\ (proc[p].pc = "idle" /\ proc'[p].pc = "su_insert_token") =>
                    /\ Len(users') = Len(users) + 1
                    /\ AcceptsOnly(users', Len(users'), proc'[p].password)
             /\ (/\ proc[p].pc = "rp_commit"
                 /\ response'.op = "reset_password"
                 /\ response'.success) =>
                    AcceptsOnly(users', proc[p].auth_token.user_id, proc[p].password)
       /\ \A i \in DOMAIN users :
             users'[i].password_hash # users[i].password_hash =>
                 \E p \in Procs : /\ proc[p].pc = "rp_commit"
                                  /\ proc[p].auth_token.user_id = i
                                  /\ response'.success
       /\ (/\ response = NoResponse
           /\ response'.op = "login"
           /\ response'.success) =>
              \E i \in DOMAIN users :
                  /\ users[i].email = response'.request.email
                  /\ users[i].password_hash.hash =
                        <<"argon2id", response'.request.password, users[i].password_hash.salt>>
                  /\ response'.data.user.id = i]_vars

\* after a reset to "newpass1234" the sign-up password was tried and refused
C17_Witness ==
    /\ response.op = "login"
    /\ response.status = 401
    /\ response.request.password = "password123"
    /\ \E u \in UsersByEmail(response.request.email) :
          /\ verify_password(u.password_hash, "newpass1234")
          /\ ~verify_password(u.password_hash, "password123")
          /\ \E t \in IssuedOf(u.id, "password_reset") : auth_tokens[t].used_at # NULL

\* C18: a response carries a bearer token only if it is the 200 of a login;
\* verify-email and reset-password acknowledge with a message and no data, a
\* failed login carries no data, and the user values of signup, get_me and
\* get_user_by_id have no token in them.
C18_OnlyLoginMints ==
    /\ response.data.kind = "auth" =>
          /\ response.op = "login"
          /\ response.success
          /\ response.status = 200
          /\ response.data.token.kind = "signed"
    /\ response.op \in {"verify_email", "reset_password", "resend_verification",
                        "forgot_password"} => response.data = NoData
    /\ (response.op = "login" /\ ~response.success) => response.data = NoData
    /\ response.op \in {"signup", "get_me", "get_user_by_id"} =>
          /\ response.data.kind \in {"null", "user"}
          /\ "token" \notin DOMAIN response.data

\* reset-password has succeeded and answered with its message alone
C18_Witness ==
    /\ response.op = "reset_password"
    /\ response.success
    /\ response.message = "Password reset successfully"
    /\ response.data = NoData

\* C19: when the extractor has accepted the bearer token, get_me answers 200
\* with the public projection of the stored user whose id is the token's
\* subject, and 404 "User not found" when no stored user has that id; it never
\* answers with another user's record.
C19_GetMe ==
    (/\ response.op = "get_me"
     /\ response.request # NoRequest
     /\ response.request.bearer.kind = "signed"
     /\ response.request.bearer.exp >= now - Leeway) =>
        LET sub == response.request.bearer.sub
        IN IF sub \in DOMAIN users
           THEN /\ response.success
                /\ response.status = 200
                /\ response.data = [kind |-> "user", id |-> sub,
                                    username |-> users[sub].username,
                                    email |-> users[sub].email,
                                    email_verified |-> users[sub].email_verified]
           ELSE /\ ~response.success
                /\ response.status = 404
                /\ response.message = "User not found"
                /\ response.data = NoData

\* a valid token whose subject is not stored has been answered 404 while
\* another user is stored
C19_Witness ==
    /\ response.op = "get_me"
    /\ response.status = 404
    /\ response.request.bearer.kind = "signed"
    /\ response.request.bearer.sub \notin DOMAIN users
    /\ users # <<>>

\* the positions from which a handler returns only when a statement has failed
FailureOnlyPcs ==
    {"su_insert_token", "ve_transaction", "ve_commit", "rv_invalidate", "rv_insert",
     "fp_invalidate", "fp_insert", "rp_transaction"}

OpOf(pc) ==
    CASE pc \in {"su_insert_token", "su_send"} -> "signup"
      [] pc \in {"ve_transaction", "ve_commit", "ve_send"} -> "verify_email"
      [] pc \in {"rv_invalidate", "rv_insert", "rv_send"} -> "resend_verification"
      [] pc \in {"fp_invalidate", "fp_insert", "fp_send"} -> "forgot_password"
      [] pc \in {"rp_transaction", "rp_commit"} -> "reset_password"

InternalErrorReply(op) ==
    [op |-> op, request |-> NoRequest, status |-> 500, success |-> FALSE,
     message |-> "Internal Server Error", data |-> NoData]

\* C20: a statement that fails in the middle of a handler ends the request
\* with 500 "Internal Server Error" and writes nothing; a failed commit of
\* reset-password likewise; a 500 always carries that message; and every
\* failure of another kind is called for by the request and the stored state:
\* 409 by a duplicate key, 400 by a token that is not live, 401 by bad
\* credentials or a bad bearer token, 404 by an id that is not stored.
C20_StorageFailureIsInternal ==
    [][/\ \A p \in Procs :
             /\ (/\ proc[p].pc \in FailureOnlyPcs
                 /\ proc'[p].pc = "idle"
                 /\ response' # NoResponse) =>
                    /\ response' = InternalErrorReply(OpOf(proc[p].pc))
                    /\ UNCHANGED <<users, auth_tokens, mail>>
             /\ (/\ proc[p].pc = "rp_commit"
                 /\ proc'[p].pc = "idle"
                 /\ response' # NoResponse
                 /\ ~response'.success) =>
                    /\ response' = InternalErrorReply("reset_password")
                    /\ UNCHANGED <<users, auth_tokens, mail>>
       /\ (response = NoResponse /\ response' # NoResponse /\ ~response'.success) =>
             LET r == response'
             IN /\ r.status \in {400, 401, 404, 409, 422, 500}
                /\ r.status = 500 => r = InternalErrorReply(r.op)
                /\ r.status = 409 => r.op = "signup" /\ Collides(r.request)
                /\ r.status = 400 =>
                      /\ r.op \in LookupOps
                      /\ ~\E i \in DOMAIN auth_tokens :
                              /\ auth_tokens[i].token = r.request.token
                              /\ auth_tokens[i].token_type = TypeOf(r.op)
                              /\ auth_tokens[i].used_at = NULL
                              /\ now < auth_tokens[i].expires_at
                /\ (r.status = 401 /\ r.op = "login") =>
                      \A i \in DOMAIN users :
                          users[i].email = r.request.email =>
                              users[i].password_hash.hash #
                                  <<"argon2id", r.request.password, users[i].password_hash.salt>>
                /\ (r.status = 401 /\ r.op # "login") =>
                      /\ r.op = "get_me"
                      /\ \/ r.request.bearer.kind # "signed"
                         \/ r.request.bearer.exp < now - Leeway
                /\ r.status = 404 =>
                      \/ r.op = "get_me" /\ r.request.bearer.sub \notin DOMAIN users
                      \/ r.op = "get_user_by_id" /\ r.request.id \notin DOMAIN users]_vars

\* the token INSERT of a sign-up failed: the request ended with 500 and the
\* user it had stored has no token
C20_Witness ==
    /\ response = InternalErrorReply("signup")
    /\ \A p \in Procs : proc[p].pc = "idle"
    /\ Len(users) = 1
    /\ auth_tokens = <<>>

\* C21 as stated: once a token row carries used_at, no step clears it or
\* replaces it with another instant.
C21_UsedAtWrittenOnce ==
    [][\A t \in DOMAIN auth_tokens :
          auth_tokens[t].used_at # NULL =>
              auth_tokens'[t].used_at = auth_tokens[t].used_at]_vars

\* the positions at which a handler writes a table
WritingPcs ==
    {"su_insert_token", "ve_commit", "rv_invalidate", "rv_insert", "fp_invalidate",
     "fp_insert", "rp_commit"}

\* this step is handler p's lookup finding the user and going on to invalidate
Issuing(p, pc) == proc[p].pc = "idle" /\ proc'[p].pc = pc

\* C22: a resend-verification that finds no user, or a verified one, and a
\* forgot-password that finds no user, return at once: users and auth_tokens
\* stay as they are, no handler moves and no mail is handed to the relay;
\* resend-verification goes on to invalidate and reissue only for a stored,
\* unverified user, and forgot-password only for a stored one; tokens are
\* written and verification or reset mails sent only by requests that went on.
C22_AbsentOrVerifiedFrame ==
    [][/\ \A email \in Emails :
             LET found == {i \in DOMAIN users : users[i].email = email}
                 verified == \E i \in found : users[i].email_verified
                 returns(op) == /\ response = NoResponse
                                /\ response'.op = op
                                /\ response'.request.email = email
                                /\ proc' = proc
             IN /\ returns("resend_verification") =>
                       /\ found = {} \/ verified
                       /\ response'.status = 200
                       /\ UNCHANGED <<users, auth_tokens, mail>>
                       /\ mail = NoMail
                /\ returns("forgot_password") =>
                       /\ found = {}
                       /\ response'.status = 200
                       /\ UNCHANGED <<users, auth_tokens, mail>>
                       /\ mail = NoMail
                /\ \A p \in Procs :
                       /\ (Issuing(p, "rv_invalidate") /\ proc'[p].user.email = email) =>
                             /\ found # {} /\ ~verified
                             /\ proc'[p].user.id \in found
                             /\ UNCHANGED <<users, auth_tokens, mail>>
                       /\ (Issuing(p, "fp_invalidate") /\ proc'[p].user.email = email) =>
                             /\ found # {}
                             /\ proc'[p].user.id \in found
                             /\ UNCHANGED <<users, auth_tokens, mail>>
       /\ auth_tokens' # auth_tokens => \E p \in Procs : proc[p].pc \in WritingPcs
       /\ (mail' # mail /\ mail'.kind = "verification") =>
             \E p \in Procs : proc[p].pc \in {"su_send", "rv_send"}
       /\ (mail' # mail /\ mail'.kind = "password_reset") =>
             \E p \in Procs : proc[p].pc = "fp_send"]_vars

\* a verified user asked for a resend and was told so: her consumed token is
\* the only one she has
C22_Witness ==
    /\ response.op = "resend_verification"
    /\ response.message = "Email is already verified."
    /\ mail = NoMail
    /\ \E u \in UsersByEmail(response.request.email) :
          /\ u.email_verified
          /\ Cardinality(IssuedOf(u.id, "email_verification")) = 1
          /\ LiveOf(u.id, "email_verification") = {}

VerifyFirstMessage == "Please verify your email before logging in"

\* C23: a login is answered "Please verify your email before logging in" only
\* when the password matches the hash stored for the e-mail and the account is
\* unverified; a wrong password on an unverified account gets the very 401
\* "Unauthorized" of an e-mail that no user has, so nothing in the answer
\* tells an unverified account from an absent one without the password.
C23_VerificationHiddenWithoutPassword ==
    (response.op = "login" /\ response.request # NoRequest) =>
        LET found == {i \in DOMAIN users : users[i].email = response.request.email}
            matches(i) == users[i].password_hash.hash =
                              <<"argon2id", response.request.password,
                                users[i].password_hash.salt>>
        IN /\ response.message = VerifyFirstMessage =>
                 \E i \in found : matches(i) /\ ~users[i].email_verified
           /\ (\E i \in found : ~matches(i) /\ ~users[i].email_verified) =>
                 /\ Outcome(response) = LoginUnauthorized
                 /\ response.message # VerifyFirstMessage
           /\ found = {} => Outcome(response) = LoginUnauthorized
           /\ (\E i \in found : ~matches(i)) =>
                 Outcome(response) = LoginUnauthorized

\* an unverified user's login with a wrong password has been answered 401
C23_Witness ==
    /\ response.op = "login"
    /\ Outcome(response) = LoginUnauthorized
    /\ \E u \in UsersByEmail(response.request.email) :
          /\ ~u.email_verified
          /\ ~verify_password(u.password_hash, response.request.password)
          /\ response.request.password \in Passwords

\* the operation that takes tokens of the other type
OtherOp(ty) == IF ty = "email_verification" THEN "reset_password" ELSE "verify_email"

\* C24: a live token of one type presented to the operation of the other type
\* is never accepted by its lookup: the request is answered 400 "Invalid or
\* expired token", and the row stays as it was, unused and live.
C24_TypeIsolation ==
    [][\A t \in DOMAIN auth_tokens :
          (auth_tokens[t].used_at = NULL /\ now < auth_tokens[t].expires_at) =>
              LET op == OtherOp(auth_tokens[t].token_type)
                  token == auth_tokens[t].token
              IN /\ \A p \in Procs : ~Accepted(p, op, token)
                 /\ (FirstStepReturn(op) /\ response'.request.token = token) =>
                        /\ response' = InvalidTokenReply(op, token)
                        /\ UNCHANGED <<users, auth_tokens>>
                        /\ auth_tokens'[t].used_at = NULL
                        /\ now' < auth_tokens'[t].expires_at]_vars

\* a live password_reset token was presented to verify-email and refused,
\* while its owner is still unverified and the token still live
C24_Witness ==
    \E t \in DOMAIN auth_tokens :
        /\ auth_tokens[t].token_type = "password_reset"
        /\ auth_tokens[t].used_at = NULL
        /\ now < auth_tokens[t].expires_at
        /\ ~users[auth_tokens[t].user_id].email_verified
        /\ response = InvalidTokenReply("verify_email", auth_tokens[t].token)

\* ------------------------------------------------- a second starting point
\* the state a completed sign-up of alice at instant 0 leaves behind: her row,
\* unverified, and her verification token, live; no request is in flight
InitSignedUp ==
    /\ users = <<[id |-> 1, username |-> "alice", email |-> "a@x.com",
                  password_hash |-> hash_password("password123", "salt1"),
                  email_verified |-> FALSE]>>
    /\ auth_tokens = <<[id |-> 1, user_id |-> 1, token |-> 1,
                        token_type |-> "email_verification",
                        expires_at |-> VerificationTtl, used_at |-> NULL]>>
    /\ now = 0
    /\ proc = [p \in Procs |-> Idle]
    /\ response = NoResponse
    /\ mail = NoMail
    /\ raced = {}
    /\ admitted = 0
    /\ NoClaps

SpecSignedUp == InitSignedUp /\ [][Next]_vars

\* C25: a stored password_hash changes only in the commit of a reset-password
\* whose lookup found a live password_reset token of that very user, and what
\* is written is the hash of that request's new password; the step changes
\* nothing else of any user, and no step removes a user.
C25_HashChangesOnlyByOwnReset ==
    [][/\ Len(users') >= Len(users)
       /\ \A p \in Procs :
             /\ Issuing(p, "rp_transaction") =>
                    /\ proc'[p].auth_token \in Rows(auth_tokens)
                    /\ proc'[p].auth_token.token_type = "password_reset"
                    /\ proc'[p].auth_token.used_at = NULL
                    /\ now < proc'[p].auth_token.expires_at
             /\ (proc[p].pc = "rp_transaction" /\ proc'[p].pc = "rp_commit") =>
                    proc'[p].auth_token = proc[p].auth_token
       /\ \A i \in DOMAIN users :
             users'[i].password_hash # users[i].password_hash =>
                 \E p \in Procs :
                     /\ proc[p].pc = "rp_commit"
                     /\ proc'[p].pc = "idle"
                     /\ response'.op = "reset_password"
                     /\ response'.success
                     /\ proc[p].auth_token.token_type = "password_reset"
                     /\ proc[p].auth_token.user_id = i
                     /\ auth_tokens[proc[p].auth_token.id].user_id = i
                     /\ users' = [users EXCEPT ![i].password_hash = proc[p].password_hash]
                     /\ proc[p].password_hash.hash =
                           <<"argon2id", proc[p].password, proc[p].password_hash.salt>>]_vars

\* alice has reset her password with her own token while bob is stored too:
\* her hash is the new one, his is the one he signed up with
C25_Witness ==
    /\ response.op = "reset_password"
    /\ response.success
    /\ Len(users) = 2
    /\ users[1].password_hash.hash = <<"argon2id", "newpass1234", "salt1">>
    /\ users[2].password_hash.hash = <<"argon2id", "password123", "salt1">>
    /\ \E t \in IssuedOf(1, "password_reset") :
          auth_tokens[t].token = response.request.token /\ auth_tokens[t].used_at # NULL

\* the same handlers when no client disconnects: every request runs to its
\* return, so a handler that is idle again has answered
NextConnected ==
    \/ \E p \in Procs, payload \in RegisterUsers, salt \in Salts :
            SignupInsertUser(p, payload, salt)
    \/ \E p \in Procs : SignupInsertToken(p)
    \/ \E p \in Procs : SignupSend(p)
    \/ \E p \in Procs, token \in 1..MaxRequests : VerifyEmailSelect(p, token)
    \/ \E p \in Procs : VerifyEmailTransaction(p)
    \/ \E p \in Procs : VerifyEmailCommit(p)
    \/ \E p \in Procs : VerifyEmailSend(p)
    \/ \E p \in Procs, email \in Emails \cup {MalformedEmail} :
            ResendVerificationSelect(p, email)
    \/ \E p \in Procs : ResendVerificationInvalidate(p)
    \/ \E p \in Procs : ResendVerificationInsert(p)
    \/ \E p \in Procs : ResendVerificationSend(p)
    \/ \E p \in Procs, email \in Emails \cup {MalformedEmail}, password \in Passwords :
            Login(p, email, password)
    \/ \E p \in Procs, email \in Emails \cup {MalformedEmail} : ForgotPasswordSelect(p, email)
    \/ \E p \in Procs : ForgotPasswordInvalidate(p)
    \/ \E p \in Procs : ForgotPasswordInsert(p)
    \/ \E p \in Procs : ForgotPasswordSend(p)
    \/ \E p \in Procs, token \in 1..MaxRequests, new_password \in NewPasswords, salt \in Salts :
            ResetPasswordSelect(p, token, new_password, salt)
    \/ \E p \in Procs : ResetPasswordTransaction(p)
    \/ \E p \in Procs : ResetPasswordCommit(p)
    \/ \E p \in Procs, kind \in BearerKinds, sub \in UserIds, age \in BearerAges :
            GetMe(p, kind, sub, age)
    \/ \E p \in Procs, id \in UserIds : GetUserById(p, id)
    \/ \E d \in TickSteps : Tick(d)
    \/ Deliver

SpecConnected == InitSignedUp /\ [][NextConnected]_vars

\* the forgot-password request that issued row t has returned
ForgotReturned(t) ==
    /\ auth_tokens[t].token_type = "password_reset"
    /\ \A q \in Procs : ~(proc[q].pc = "fp_send" /\ proc[q].auth_token.id = t)

\* C26 as stated: once a forgot-password has returned for a user, no
\* reset-password commits a password change with a password_reset token that
\* an earlier forgot-password issued to that user, also when the lookup of
\* the reset ran before the invalidation.  (Stated for forgot-password
\* requests that did not overlap each other.)
C26_ForgotCutsOffEarlierTokens ==
    [][\A p \in Procs :
          (/\ proc[p].pc = "rp_commit"
           /\ response'.op = "reset_password"
           /\ response'.success
           /\ users' # users
           /\ <<proc[p].auth_token.user_id, "password_reset">> \notin raced
           /\ ForgotReturned(proc[p].auth_token.id)) =>
              ~\E t \in DOMAIN auth_tokens :
                  /\ t > proc[p].auth_token.id
                  /\ auth_tokens[t].user_id = proc[p].auth_token.user_id
                  /\ ForgotReturned(t)]_vars

\* C27: a user row is created with email_verified false; the flag turns true
\* only in the commit of a verify-email whose token is an email_verification
\* token of that user, consumed in the same step; and a flag that is true
\* stays true through every step.
C27_EmailVerifiedMonotone ==
    [][/\ Len(users') >= Len(users)
       /\ \A i \in DOMAIN users' : i \notin DOMAIN users => ~users'[i].email_verified
       /\ \A i \in DOMAIN users :
             /\ users[i].email_verified => users'[i].email_verified
             /\ (~users[i].email_verified /\ users'[i].email_verified) =>
                   \E p \in Procs :
                       LET tok == proc[p].auth_token
                       IN /\ proc[p].pc = "ve_commit"
                          /\ proc'[p].pc = "ve_send"
                          /\ tok.token_type = "email_verification"
                          /\ tok.user_id = i
                          /\ auth_tokens[tok.id].user_id = i
                          /\ auth_tokens[tok.id].token_type = "email_verification"
                          /\ auth_tokens'[tok.id].used_at # NULL]_vars

\* alice verified her e-mail and later reset her password: she is still
\* verified
C27_Witness ==
    /\ response.op = "reset_password"
    /\ response.success
    /\ users[1].email_verified
    /\ users[1].password_hash.hash = <<"argon2id", "newpass1234", "salt1">>
    /\ auth_tokens[1].used_at # NULL

\* C28 as stated: in every reachable state a user whose email_verified is true
\* owns no live email_verification token.
C28_VerifiedOwnsNoLiveToken ==
    \A i \in DOMAIN users :
        users[i].email_verified => LiveOf(i, "email_verification") = {}

\* C29 as stated: a sign-up that ends in an error leaves users and auth_tokens
\* as they were before the request: refused at the INSERT of the user it
\* writes nothing, and when the INSERT of the token fails no row of the user
\* it had stored remains.
C29_FailedSignupLeavesNothing ==
    [][/\ (FirstStepReturn("signup") /\ ~response'.success) =>
             UNCHANGED <<users, auth_tokens>>
       /\ \A p \in Procs :
             (/\ proc[p].pc = "su_insert_token"
              /\ proc'[p].pc = "idle"
              /\ response'.op = "signup"
              /\ ~response'.success) =>
                 /\ UNCHANGED auth_tokens
                 /\ \A i \in DOMAIN users' : users'[i].username # proc[p].user.username]_vars

\* this step is a clap request of kind op that returns from its first statement
ClapFirstStepReturn(op) ==
    /\ response = NoResponse
    /\ response' # NoResponse
    /\ response'.op = op
    /\ clap_proc' = clap_proc

MaxClapsReply(op, request) ==
    [op |-> op, request |-> request, status |-> 422, success |-> FALSE,
     message |-> "Max 50 claps allowed", data |-> NoData]

\* C30 as stated: no (user, story) and no (user, comment) pair ever has a
\* claps_count above 50, concurrent clap requests of one user on one target
\* included; and a clap request made when the count is 50 is answered "Max 50
\* claps allowed" and changes neither the pair's count nor the target's total.
C30_ClapCap ==
    [][/\ \A k \in DOMAIN story_claps : story_claps'[k] <= 50
       /\ \A k \in DOMAIN comment_claps : comment_claps'[k] <= 50
       /\ \A id \in PublishedStories, user_id \in ClapUsers :
             (/\ ClapFirstStepReturn("clap_story")
              /\ response'.request.id = id
              /\ response'.request.bearer.sub = user_id
              /\ response'.status # 401
              /\ story_claps[<<id, user_id>>] = 50) =>
                 /\ response' = MaxClapsReply("clap_story", response'.request)
                 /\ UNCHANGED <<story_claps, stories>>
       /\ \A id \in StoredComments, user_id \in ClapUsers :
             (/\ ClapFirstStepReturn("clap_comment")
              /\ response'.request.id = id
              /\ response'.request.bearer.sub = user_id
              /\ response'.status # 401
              /\ comment_claps[<<id, user_id>>] = 50) =>
                 /\ response' = MaxClapsReply("clap_comment", response'.request)
                 /\ UNCHANGED <<comment_claps, comments>>]_vars
====
